---- MODULE Spec2Model ----
(***************************************************************************)
(* Room-availability ingestion pipeline of scrape.py:                      *)
(*   __main__ (load room_ids.json) -> fetch_all_rooms_availability         *)
(*   (thread pool, one fetch_single_room_availability per room)            *)
(*   -> store_availability_to_db (SQLite table room_availability).         *)
(*                                                                         *)
(* Three specifications over the same variables:                           *)
(*   SpecFetch  applies fetch_single_room_availability to bounded          *)
(*              upstream outcomes;                                         *)
(*   SpecStore  applies store_availability_to_db repeatedly to a bounded   *)
(*              batch and prior table;                                     *)
(*   Spec       the whole script, run after run.                           *)
(***************************************************************************)
EXTENDS Integers, Sequences, FiniteSets, TLC

VARIABLES
    pc,                \* position of the main thread of the script
    artifact,          \* room_ids.json as found on disk by this run
    room_ids,          \* the list __main__ loaded
    futures,           \* future_to_room: one task per submitted room
    order,             \* indices of futures in completion order (as_completed)
    all_availability,  \* the batch
    db,                \* room_availability.db: the table room_availability
    conn,              \* the sqlite3 connection of the last store call
    log,               \* what the last call / the current run printed
    raised,            \* exception that left the last call / ended the run
    run,               \* number of the current run of the script
    calls,             \* history: one entry per finished store call
    db0,               \* history: the database as the current run found it
    fetched            \* the last direct call of the fetcher (SpecFetch)

vars == <<pc, artifact, room_ids, futures, order, all_availability, db, conn,
          log, raised, run, calls, db0, fetched>>

(***************************************************************************)
(* Bounds of the model.                                                    *)
(***************************************************************************)
MaxBatch == 2      \* records in a batch handed directly to the store
MaxCalls == 2      \* consecutive store calls on the same batch
MaxSubjects == 2   \* subjects in one upstream response
MaxItems == 2      \* items in one subject
MaxRooms == 2      \* entries in room_ids.json
MaxRuns == 2       \* runs of the script

(***************************************************************************)
(* Values.  A Python/JSON value is a record [k, s, m, e]:                  *)
(*   k = "str"    s is the string, as a sequence of characters             *)
(*   k = "int"    the integer m                                            *)
(*   k = "float"  the decimal m / 10^e                                     *)
(*   k = "null"   None / JSON null                                         *)
(*   k = "list"   a JSON array or object (a container)                     *)
(*   k = "absent" the key is missing from the mapping                      *)
(* A stored SQLite cell uses the same shape with k in NULL, INTEGER, REAL, *)
(* TEXT.                                                                   *)
(***************************************************************************)
V(k, s, m, e) == [k |-> k, s |-> s, m |-> m, e |-> e]
StrV(s) == V("str", s, 0, 0)
IntV(m) == V("int", <<>>, m, 0)
FloatV(m, e) == V("float", <<>>, m, e)
None == V("null", <<>>, 0, 0)
List == V("list", <<>>, 0, 0)
Absent == V("absent", <<>>, 0, 0)

SqlNull == V("NULL", <<>>, 0, 0)
SqlInteger(m) == V("INTEGER", <<>>, m, 0)
SqlReal(m, e) == V("REAL", <<>>, m, e)
SqlText(s) == V("TEXT", s, 0, 0)

NA == <<"N", "/", "A">>                 \* the literal "N/A"
EmptyStr == <<>>                        \* the literal ""

DigitChars == <<"0", "1", "2", "3", "4", "5", "6", "7", "8", "9">>
IsDigit(c) == \E i \in 1..10 : DigitChars[i] = c
DigitVal(c) == (CHOOSE i \in 1..10 : DigitChars[i] = c) - 1
AllDigits(s) == \A i \in 1..Len(s) : IsDigit(s[i])

RECURSIVE DigitsVal(_)
DigitsVal(s) ==
    IF s = <<>> THEN 0
    ELSE 10 * DigitsVal(SubSeq(s, 1, Len(s) - 1)) + DigitVal(s[Len(s)])

RECURSIVE FormatNat(_)
FormatNat(n) ==
    IF n < 10 THEN <<DigitChars[n + 1]>>
    ELSE Append(FormatNat(n \div 10), DigitChars[(n % 10) + 1])

\* str.strip(): float() and int() ignore blanks around the literal
Strip(s) ==
    LET inked == {i \in 1..Len(s) : s[i] # " "} IN
    IF inked = {} THEN <<>>
    ELSE SubSeq(s, CHOOSE i \in inked : \A j \in inked : i <= j,
                   CHOOSE i \in inked : \A j \in inked : j <= i)

\* position of the first "." of s, 0 when there is none
DotAt(s) ==
    LET dots == {i \in 1..Len(s) : s[i] = "."} IN
    IF dots = {} THEN 0 ELSE CHOOSE i \in dots : \A j \in dots : i <= j

\* a stripped literal cut into sign, integer digits and fraction digits
Cut(neg, u, dot) ==
    [neg |-> neg, u |-> u,
     ip |-> IF dot = 0 THEN u ELSE SubSeq(u, 1, dot - 1),
     fp |-> IF dot = 0 THEN <<>> ELSE SubSeq(u, dot + 1, Len(u))]
Unsign(t) ==
    IF t # <<>> /\ Head(t) \in {"-", "+"} THEN [neg |-> Head(t) = "-", u |-> Tail(t)]
    ELSE [neg |-> FALSE, u |-> t]
CutUnsigned(b) == Cut(b.neg, b.u, DotAt(b.u))
Lex(s) == CutUnsigned(Unsign(Strip(s)))

\* decimal literals accepted by float(): [sign] digits [. digits], one digit at least
IsFloatLiteral(l) ==
    AllDigits(l.ip) /\ AllDigits(l.fp) /\ Len(l.ip) + Len(l.fp) > 0

\* decimal literals accepted by int(): [sign] digits
IsIntLiteral(l) == l.u # <<>> /\ AllDigits(l.u)

Signed(neg, n) == IF neg THEN -n ELSE n

RECURSIVE Normalize(_, _)
Normalize(m, e) ==
    IF e > 0 /\ m % 10 = 0 THEN Normalize(m \div 10, e - 1) ELSE FloatV(m, e)

ParseFloat(l) == Normalize(Signed(l.neg, DigitsVal(l.ip \o l.fp)), Len(l.fp))

ParseInt(l) == IntV(Signed(l.neg, DigitsVal(l.u)))

RECURSIVE Pow10(_)
Pow10(e) == IF e = 0 THEN 1 ELSE 10 * Pow10(e - 1)

\* truncation toward zero, as int(float) does
Trunc(m, e) == IF m >= 0 THEN m \div Pow10(e) ELSE -((-m) \div Pow10(e))

Result(exc, val) == [exc |-> exc, val |-> val]

FloatOfLiteral(l) ==
    IF IsFloatLiteral(l) THEN Result("none", ParseFloat(l)) ELSE Result("ValueError", None)

IntOfLiteral(l) ==
    IF IsIntLiteral(l) THEN Result("none", ParseInt(l)) ELSE Result("ValueError", None)

\* float(x)
PyFloat(x) ==
    CASE x.k = "str" -> FloatOfLiteral(Lex(x.s))
      [] x.k = "int" -> Result("none", FloatV(x.m, 0))
      [] x.k = "float" -> Result("none", x)
      [] OTHER -> Result("TypeError", None)

\* int(x)
PyInt(x) ==
    CASE x.k = "str" -> IntOfLiteral(Lex(x.s))
      [] x.k = "int" -> Result("none", x)
      [] x.k = "float" -> Result("none", IntV(Trunc(x.m, x.e)))
      [] OTHER -> Result("TypeError", None)

(***************************************************************************)
(* store_availability_to_db                                                *)
(***************************************************************************)
Msg(text, ref) == [text |-> text, ref |-> ref]

\* an AvailabilityRecord as the fetcher builds it (a dict of seven keys)
Record(room_id, date, event_name, time_start, time_end, status, details) ==
    [room_id |-> room_id, date |-> date, event_name |-> event_name,
     time_start |-> time_start, time_end |-> time_end, status |-> status,
     additional_details |-> details]

\* item[key]
Subscript(x) == IF x.k = "absent" THEN Result("KeyError", None) ELSE Result("none", x)

\* variant of CoerceTime: the sentinel becomes 0.0
CoerceTimeZero(x) ==
    IF x.k = "absent" THEN Result("KeyError", None)
    ELSE IF x = StrV(NA) THEN Result("none", FloatV(0, 0))
    ELSE PyFloat(x)

\* float(item[key]) if item[key] != "N/A" else None
CoerceTime(x) ==
    IF x.k = "absent" THEN Result("KeyError", None)
    ELSE IF x = StrV(NA) THEN Result("none", None)
    ELSE PyFloat(x)

\* variant of CoerceStatus: the sentinel becomes 0
CoerceStatusZero(x) ==
    IF x.k = "absent" THEN Result("KeyError", None)
    ELSE IF x = StrV(NA) THEN Result("none", IntV(0))
    ELSE PyInt(x)

\* int(item["status"]) if item["status"] != "N/A" else None
CoerceStatus(x) ==
    IF x.k = "absent" THEN Result("KeyError", None)
    ELSE IF x = StrV(NA) THEN Result("none", None)
    ELSE PyInt(x)

\* the first exception raised by the steps, in evaluation order
RECURSIVE FirstExc(_)
FirstExc(steps) ==
    IF steps = <<>> THEN "none"
    ELSE IF Head(steps).exc # "none" THEN Head(steps).exc
    ELSE FirstExc(Tail(steps))

\* body of the try block of the loop: the tuple appended to records
ProcessItem(item) ==
    LET ts == CoerceTime(item.time_start)
        te == CoerceTime(item.time_end)
        st == CoerceStatus(item.status)
        exc == FirstExc(<<ts, te, st, Subscript(item.room_id), Subscript(item.date),
                          Subscript(item.event_name), Subscript(item.additional_details)>>)
    IN  Result(exc, Record(item.room_id, item.date, item.event_name,
                           ts.val, te.val, st.val, item.additional_details))

\* the exceptions the loop's except clause names
Handled(exc) == exc \in {"KeyError", "ValueError"}

\* the for loop over availability_data: records, the messages printed, and
\* the exception that left the loop
RECURSIVE PrepareRecords(_, _, _, _)
PrepareRecords(data, i, records, msgs) ==
    IF i > Len(data) THEN [exc |-> "none", records |-> records, log |-> msgs]
    ELSE LET r == ProcessItem(data[i]) IN
         IF r.exc = "none"
         THEN PrepareRecords(data, i + 1, Append(records, r.val), msgs)
         ELSE IF Handled(r.exc)
         THEN PrepareRecords(data, i + 1, records,
                             Append(msgs, Msg("Error processing item", i)))
         ELSE [exc |-> r.exc, records |-> records, log |-> msgs]

\* sqlite3 accepts None, int, float and str as parameters
Bindable(x) == x.k \in {"null", "int", "float", "str"}

RECURSIVE PadLeft(_, _)
PadLeft(s, n) == IF Len(s) >= n THEN s ELSE PadLeft(<<"0">> \o s, n)

Abs(m) == IF m < 0 THEN -m ELSE m

\* the text SQLite renders a number as
FormatNumber(x) ==
    LET sign == IF x.m < 0 THEN <<"-">> ELSE <<>> IN
    IF x.k = "int" THEN sign \o FormatNat(Abs(x.m))
    ELSE sign \o FormatNat(Abs(x.m) \div Pow10(x.e)) \o <<".">>
              \o (IF x.e = 0 THEN <<"0">> ELSE PadLeft(FormatNat(Abs(x.m) % Pow10(x.e)), x.e))

\* a string bound to a column of numeric affinity is converted when it
\* is a well-formed literal, and stays text otherwise
NumericCell(affinity, s, l) ==
    IF Strip(s) # s THEN SqlText(s)
    ELSE IF IsIntLiteral(l)
    THEN (IF affinity = "REAL" THEN SqlReal(ParseInt(l).m, 0) ELSE SqlInteger(ParseInt(l).m))
    ELSE IF IsFloatLiteral(l) THEN SqlReal(ParseFloat(l).m, ParseFloat(l).e)
    ELSE SqlText(s)

\* the cell a bound parameter becomes in a column of the given affinity
Cell(affinity, x) ==
    CASE x.k = "null" -> SqlNull
      [] x.k = "str" ->
            IF affinity = "TEXT" THEN SqlText(x.s) ELSE NumericCell(affinity, x.s, Lex(x.s))
      [] x.k = "int" ->
            IF affinity = "TEXT" THEN SqlText(FormatNumber(x))
            ELSE IF affinity = "REAL" THEN SqlReal(x.m, 0)
            ELSE SqlInteger(x.m)
      [] x.k = "float" ->
            IF affinity = "TEXT" THEN SqlText(FormatNumber(x))
            ELSE IF affinity = "INTEGER" /\ x.e = 0 THEN SqlInteger(x.m)
            ELSE SqlReal(x.m, x.e)

\* CREATE TABLE room_availability: the row a record becomes, id being the
\* AUTOINCREMENT key
Row(id, r) ==
    [id |-> id,
     room_id |-> Cell("INTEGER", r.room_id),
     date |-> Cell("TEXT", r.date),
     event_name |-> Cell("TEXT", r.event_name),
     time_start |-> Cell("REAL", r.time_start),
     time_end |-> Cell("REAL", r.time_end),
     status |-> Cell("INTEGER", r.status),
     additional_details |-> Cell("TEXT", r.additional_details)]

RecordBindable(r) ==
    /\ Bindable(r.room_id) /\ Bindable(r.date) /\ Bindable(r.event_name)
    /\ Bindable(r.time_start) /\ Bindable(r.time_end) /\ Bindable(r.status)
    /\ Bindable(r.additional_details)

Database(exists, rows) == [exists |-> exists, rows |-> rows]

\* variant of DropAndCreate: CREATE TABLE IF NOT EXISTS, nothing dropped
CreateIfMissing(d) == Database(TRUE, d.rows)

\* DROP TABLE IF EXISTS + CREATE TABLE; sqlite3 runs DDL outside a
\* transaction, so both are durable at once
DropAndCreate(d) == Database(TRUE, <<>>)

\* cursor.executemany(INSERT ...): the rows of the open transaction and
\* whether a parameter failed to bind
ExecuteMany(records) ==
    LET bad == {i \in 1..Len(records) : ~RecordBindable(records[i])}
        n == IF bad = {} THEN Len(records)
             ELSE (CHOOSE i \in bad : \A j \in bad : i <= j) - 1
    IN  [exc |-> IF bad = {} THEN "none" ELSE "sqlite3.Error",
         pending |-> [i \in 1..n |-> Row(i, records[i])]]

\* conn.commit(): the pending rows become the table's rows
Commit(d, pending) == Database(d.exists, d.rows \o pending)

\* variant of CloseWithoutCommit: the rows inserted before the failure stay
CloseCommitting(d, pending) == Database(d.exists, d.rows \o pending)

\* conn.close() with the transaction still open rolls it back
CloseWithoutCommit(d, pending) == d

\* variant of IsEmptyBatch: the early return is missing
IsEmptyBatchNever(availability_data) == FALSE

\* if not availability_data
IsEmptyBatch(availability_data) == availability_data = <<>>

StoreReturn(d, c, exc, msgs, inserted) ==
    [db |-> d, conn |-> c, raised |-> exc, log |-> msgs, inserted |-> inserted]

store_availability_to_db(availability_data, d) ==
    IF IsEmptyBatch(availability_data)
    THEN StoreReturn(d, "none", "none", <<Msg("No availability data to store.", 0)>>, 0)
    ELSE
    LET created == DropAndCreate(d)
        prep == PrepareRecords(availability_data, 1, <<>>, <<>>)
    IN  IF prep.exc # "none"
        THEN StoreReturn(created, "open", prep.exc, prep.log, 0)
        ELSE IF prep.records = <<>>
        THEN StoreReturn(created, "open", "none",
                         Append(prep.log, Msg("No records to insert.", 0)), 0)
        ELSE LET ins == ExecuteMany(prep.records) IN
             IF ins.exc = "none"
             THEN StoreReturn(Commit(created, ins.pending), "closed", "none",
                              Append(prep.log, Msg("Inserted records", Len(prep.records))),
                              Len(prep.records))
             ELSE StoreReturn(CloseWithoutCommit(created, ins.pending), "closed", "none",
                              Append(prep.log, Msg("Error inserting records", 0)), 0)

(***************************************************************************)
(* fetch_single_room_availability                                          *)
(*                                                                         *)
(* What the request met is an outcome [k, doc]:                            *)
(*   setup_error            an exception before the try block is entered   *)
(*   connection_error, timeout, http_error                                 *)
(*                          requests.get / raise_for_status raised         *)
(*   invalid_json_requests  response.json() raised the requests exception  *)
(*   invalid_json_stdlib    response.json() raised json.JSONDecodeError    *)
(*   json                   response.json() returned doc                   *)
(* A JSON document is [k, subjects]; a collection is [k, v] with k = list  *)
(* (v its elements), absent (no such key) or scalar (null or a number); a  *)
(* subject is [k, item_date, items] and an item [k, itemName, start, end,  *)
(* type_id, itemId2], k = object or string (a JSON string in its place).   *)
(***************************************************************************)
Coll(k, v) == [k |-> k, v |-> v]
Doc(k, subjects) == [k |-> k, subjects |-> subjects]
Subject(k, item_date, items) == [k |-> k, item_date |-> item_date, items |-> items]
Item(k, itemName, start, end, type_id, itemId2) ==
    [k |-> k, itemName |-> itemName, start |-> start, end |-> end,
     type_id |-> type_id, itemId2 |-> itemId2]
Outcome(k, doc) == [k |-> k, doc |-> doc]

\* variant of Get: mapping.get(key) or default, a null counts as missing
GetFalsy(x, default) == IF x.k \in {"absent", "null"} THEN default ELSE x

\* mapping.get(key, default)
Get(x, default) == IF x.k = "absent" THEN default ELSE x

\* mapping.get(key, []) as the iterable of a for loop
Iterable(c) ==
    CASE c.k = "absent" -> [exc |-> "none", val |-> <<>>]
      [] c.k = "list" -> [exc |-> "none", val |-> c.v]
      [] OTHER -> [exc |-> "TypeError", val |-> <<>>]

\* the dict appended for one item
ItemRecord(space_id, date, item) ==
    Record(IntV(space_id), date,
           Get(item.itemName, StrV(NA)),
           Get(item.start, StrV(NA)),
           Get(item.end, StrV(NA)),
           Get(item.type_id, StrV(NA)),
           Get(item.itemId2, StrV(NA)))

Walked(exc, availability) == [exc |-> exc, availability |-> availability]

\* variant of WalkItems: an item equal to one already collected is merged
RECURSIVE WalkItemsMerging(_, _, _, _, _)
WalkItemsMerging(space_id, date, items, j, availability) ==
    IF j > Len(items) THEN Walked("none", availability)
    ELSE IF items[j].k # "object" THEN Walked("AttributeError", availability)
    ELSE WalkItemsMerging(space_id, date, items, j + 1,
            IF \E k \in 1..Len(availability) :
                    availability[k] = ItemRecord(space_id, date, items[j])
            THEN availability
            ELSE Append(availability, ItemRecord(space_id, date, items[j])))

\* for item in subject.get("items", [])
RECURSIVE WalkItems(_, _, _, _, _)
WalkItems(space_id, date, items, j, availability) ==
    IF j > Len(items) THEN Walked("none", availability)
    ELSE IF items[j].k # "object" THEN Walked("AttributeError", availability)
    ELSE WalkItems(space_id, date, items, j + 1,
                   Append(availability, ItemRecord(space_id, date, items[j])))

\* for subject in data.get("subjects", [])
RECURSIVE WalkSubjects(_, _, _, _)
WalkSubjects(space_id, subjects, i, availability) ==
    IF i > Len(subjects) THEN Walked("none", availability)
    ELSE IF subjects[i].k # "object" THEN Walked("AttributeError", availability)
    ELSE LET date == Get(subjects[i].item_date, StrV(EmptyStr))
             items == Iterable(subjects[i].items)
         IN  IF items.exc # "none" THEN Walked(items.exc, availability)
             ELSE LET w == WalkItems(space_id, date, items.val, 1, availability) IN
                  IF w.exc # "none" THEN w
                  ELSE WalkSubjects(space_id, subjects, i + 1, w.availability)

\* the try block
TryFetch(space_id, outcome) ==
    CASE outcome.k \in {"connection_error", "timeout", "http_error",
                        "invalid_json_requests"} -> Walked("RequestException", <<>>)
      [] outcome.k = "invalid_json_stdlib" -> Walked("JSONDecodeError", <<>>)
      [] outcome.k = "json" ->
            IF outcome.doc.k # "object" THEN Walked("AttributeError", <<>>)
            ELSE LET subjects == Iterable(outcome.doc.subjects) IN
                 IF subjects.exc # "none" THEN Walked(subjects.exc, <<>>)
                 ELSE WalkSubjects(space_id, subjects.val, 1, <<>>)

FetchReturn(exc, val, msgs) == [exc |-> exc, val |-> val, log |-> msgs]

\* variant of ExceptFetch: the records built before the failure are returned
ExceptFetchPartial(space_id, w) ==
    FetchReturn("none", w.availability, <<Msg("Unexpected error for room", space_id)>>)

\* the three except clauses: print and return []
ExceptFetch(space_id, w) ==
    FetchReturn("none", <<>>,
        <<Msg(CASE w.exc = "RequestException" -> "Request error for room"
                [] w.exc = "JSONDecodeError" -> "JSON decode error for room"
                [] OTHER -> "Unexpected error for room", space_id)>>)

fetch_single_room_availability(space_id, outcome) ==
    IF outcome.k = "setup_error" THEN FetchReturn("Exception", <<>>, <<>>)
    ELSE LET w == TryFetch(space_id, outcome) IN
         IF w.exc = "none" THEN FetchReturn("none", w.availability, <<>>)
         ELSE ExceptFetch(space_id, w)

(***************************************************************************)
(* Inputs.                                                                 *)
(***************************************************************************)
SeqsUpTo(S, n) == UNION {[1..k -> S] : k \in 0..n}
Range(q) == {q[i] : i \in 1..Len(q)}

Str95 == <<"9", ".", "5">>
Str10 == <<"1", "0">>
Str2 == <<"2">>
Str0 == <<"0">>
StrClock == <<"0", "9", ":", "0", "0">>
StrCS101 == <<"C", "S", "1", "0", "1">>
StrA1 == <<"A", "1">>
StrDate == <<"2", "0", "2", "4", "-", "1", "1", "-", "1", "4">>
StrDate2 == <<"2", "0", "2", "4", "-", "1", "1", "-", "1", "5">>

RoomIds == {101, 102}

\* upstream items: every key present; no key present; a JSON string where
\* an item object is expected; some keys present, holding the literal "N/A",
\* a JSON null and a JSON number
ItemFull == Item("object", StrV(StrCS101), StrV(Str95), StrV(Str10), StrV(Str2), StrV(StrA1))
ItemBare == Item("object", Absent, Absent, Absent, Absent, Absent)
ItemString == Item("string", Absent, Absent, Absent, Absent, Absent)
ItemMixed == Item("object", Absent, StrV(NA), None, IntV(2), Absent)
Items == {ItemFull, ItemBare, ItemString}

ItemColls == {Coll("list", v) : v \in SeqsUpTo(Items, MaxItems)}
                \cup {Coll("absent", <<>>), Coll("scalar", <<>>)}
Subjects == {Subject("object", StrV(StrDate), c) : c \in ItemColls}
               \cup {Subject("object", Absent, Coll("list", <<ItemFull>>)),
                     Subject("object", StrV(StrDate2), Coll("list", <<ItemMixed, ItemFull>>)),
                     Subject("string", Absent, Coll("absent", <<>>))}
Docs == {Doc("object", Coll("list", v)) : v \in SeqsUpTo(Subjects, MaxSubjects)}
           \cup {Doc("object", Coll("absent", <<>>)), Doc("object", Coll("scalar", <<>>)),
                 Doc("array", Coll("absent", <<>>))}
NoDoc == Doc("none", Coll("absent", <<>>))
FailureKinds == {"connection_error", "timeout", "http_error",
                 "invalid_json_requests", "invalid_json_stdlib"}
FetchOutcomes == {Outcome(k, NoDoc) : k \in FailureKinds \cup {"setup_error"}}
                    \cup {Outcome("json", d) : d \in Docs}

\* records handed directly to the store: every combination of sentinel,
\* numeric and non-numeric strings in the three coerced fields, and some
\* records of other shapes
StoreTimes == {StrV(NA), StrV(Str95), StrV(StrClock)}
StoreStatuses == {StrV(NA), StrV(Str2), StrV(Str95)}
StoreRecords ==
    {Record(IntV(101), StrV(StrDate), StrV(StrCS101), ts, te, st, StrV(StrA1)) :
        ts \in StoreTimes, te \in StoreTimes, st \in StoreStatuses}
    \cup {Record(IntV(102), StrV(StrDate), StrV(NA), StrV(Str0), StrV(NA), StrV(Str0), StrV(NA)),
          Record(IntV(102), StrV(StrDate), StrV(StrCS101), None, StrV(Str10), StrV(Str2), StrV(StrA1)),
          Record(IntV(102), StrV(StrDate), StrV(StrCS101), StrV(NA), StrV(Str10), List, StrV(StrA1)),
          Record(IntV(102), StrV(StrDate), List, StrV(Str95), StrV(Str10), StrV(Str2), StrV(StrA1)),
          Record(IntV(102), StrV(StrDate), None, FloatV(95, 1), IntV(10), FloatV(25, 1), IntV(7)),
          Record(IntV(102), StrV(StrDate), StrV(StrCS101), StrV(Str95), StrV(Str10), Absent, StrV(StrA1))}
Batches == SeqsUpTo(StoreRecords, MaxBatch)

\* tables left by an earlier, unrelated writer
OldRecord == Record(IntV(999), StrV(StrDate), StrV(StrCS101), None, None, None, StrV(StrA1))
PriorDbs == {Database(FALSE, <<>>),
             Database(TRUE, <<Row(1, OldRecord)>>),
             Database(TRUE, <<Row(1, OldRecord), Row(2, OldRecord)>>)}

(***************************************************************************)
(* Idle values of the variables a specification does not use.              *)
(***************************************************************************)
Artifact(k, v) == [k |-> k, v |-> v]
Json(k, v) == [k |-> k, v |-> v]
EmptyList == Json("list", <<>>)
NoArtifact == Artifact("absent", EmptyList)
NoFetch == [called |-> FALSE, space_id |-> 0, outcome |-> Outcome("none", NoDoc),
            ret |-> FetchReturn("none", <<>>, <<>>)]

PipelineIdle ==
    /\ pc = "idle" /\ artifact = NoArtifact /\ room_ids = EmptyList
    /\ futures = <<>> /\ order = <<>> /\ run = 0

(***************************************************************************)
(* SpecFetch: the fetcher called on a room and an upstream outcome.        *)
(***************************************************************************)
InitFetch ==
    /\ PipelineIdle
    /\ all_availability = <<>> /\ db = Database(FALSE, <<>>) /\ conn = "none"
    /\ log = {} /\ raised = "none" /\ calls = <<>> /\ db0 = db
    /\ fetched = NoFetch

FetchCall ==
    /\ ~fetched.called
    /\ \E space_id \in RoomIds, outcome \in FetchOutcomes :
        LET ret == fetch_single_room_availability(space_id, outcome) IN
        /\ fetched' = [called |-> TRUE, space_id |-> space_id, outcome |-> outcome,
                       ret |-> ret]
        /\ log' = Range(ret.log)
        /\ raised' = ret.exc
        /\ UNCHANGED <<pc, artifact, room_ids, futures, order, all_availability, db,
                       conn, run, calls, db0>>

NextFetch == FetchCall
SpecFetch == InitFetch /\ [][NextFetch]_vars

(***************************************************************************)
(* SpecStore: the store called MaxCalls times in a row on one batch.       *)
(***************************************************************************)
StoreEntry(r, before, batch, ret) ==
    [run |-> r, before |-> before, batch |-> batch, ret |-> ret]

InitStore ==
    /\ PipelineIdle
    /\ all_availability \in Batches /\ db \in PriorDbs /\ conn = "none"
    /\ log = {} /\ raised = "none" /\ calls = <<>> /\ db0 = db
    /\ fetched = NoFetch

StoreCall ==
    /\ Len(calls) < MaxCalls
    /\ LET ret == store_availability_to_db(all_availability, db) IN
        /\ db' = ret.db
        /\ conn' = ret.conn
        /\ log' = Range(ret.log)
        /\ raised' = ret.raised
        /\ calls' = Append(calls, StoreEntry(0, db, all_availability, ret))
    /\ UNCHANGED <<pc, artifact, room_ids, futures, order, all_availability, run, db0,
                   fetched>>

NextStore == StoreCall
SpecStore == InitStore /\ [][NextStore]_vars

(***************************************************************************)
(* Spec: the script.  __main__ loads room_ids.json and, when the list is   *)
(* truthy, calls fetch_all_rooms_availability: the main thread submits one *)
(* task per room to the pool, then drains as_completed, then leaves the    *)
(* with block and calls the store.  Workers run the tasks meanwhile.       *)
(***************************************************************************)
max_workers == 40

\* an entry of the JSON array: an object holding the key id or not, or a
\* bare scalar
Entry(k, id) == [k |-> k, id |-> id]
Entries == {Entry("object", IntV(i)) : i \in RoomIds}
              \cup {Entry("object", Absent)}

\* room_ids.json: missing, not JSON, or a JSON value: an array of entries,
\* a non-empty object, a non-zero number, or a falsy value (null, {}, 0)
Artifacts == {Artifact("absent", EmptyList), Artifact("invalid", EmptyList)}
                \cup {Artifact("json", Json("list", v)) : v \in SeqsUpTo(Entries, MaxRooms)}
                \cup {Artifact("json", Json(k, <<>>)) : k \in {"object", "number", "falsy"}}

\* what the tasks of a run can meet upstream
DocOne == Doc("object", Coll("list", <<Subject("object", StrV(StrDate),
                                               Coll("list", <<ItemFull>>))>>))
DocTwo == Doc("object", Coll("list", <<Subject("object", StrV(StrDate),
                                               Coll("list", <<ItemBare, ItemFull>>))>>))
DocBroken == Doc("object", Coll("list", <<Subject("object", StrV(StrDate),
                                                  Coll("list", <<ItemFull, ItemString>>))>>))
DocEmpty == Doc("object", Coll("list", <<>>))
RunOutcomes == {Outcome("timeout", NoDoc), Outcome("setup_error", NoDoc),
                Outcome("json", DocTwo), Outcome("json", DocBroken)}

\* variant of Truthy: if room_ids is not None
TruthyNotNone(x) == x.k # "falsy"

\* bool(room_ids)
Truthy(x) == IF x.k = "list" THEN x.v # <<>> ELSE x.k # "falsy"

\* the try/except around json.load in __main__
LoadRoomIds(a) ==
    CASE a.k = "absent" ->
            [val |-> EmptyList, log |-> {Msg("The file 'room_ids.json' was not found.", 0)}]
      [] a.k = "invalid" ->
            [val |-> EmptyList, log |-> {Msg("Error decoding 'room_ids.json'.", 0)}]
      [] OTHER -> [val |-> a.v, log |-> {}]

Future(room_id, state, outcome, ret, consumed) ==
    [room_id |-> room_id, state |-> state, outcome |-> outcome, ret |-> ret,
     consumed |-> consumed]

Init ==
    /\ pc = "start" /\ artifact \in Artifacts /\ room_ids = EmptyList
    /\ futures = <<>> /\ order = <<>> /\ run = 1
    /\ all_availability = <<>> /\ db = Database(FALSE, <<>>) /\ conn = "none"
    /\ log = {} /\ raised = "none" /\ calls = <<>> /\ db0 = db
    /\ fetched = NoFetch

\* __main__: load the list, then call the orchestrator or print and end
Main ==
    /\ pc = "start"
    /\ LET loaded == LoadRoomIds(artifact) IN
        /\ room_ids' = loaded.val
        /\ IF Truthy(loaded.val)
           THEN /\ pc' = IF loaded.val.k = "list" /\ loaded.val.v = <<>>
                        THEN "collect" ELSE "submit"
                /\ log' = log \cup loaded.log
           ELSE /\ pc' = "done"
                /\ log' = log \cup loaded.log \cup {Msg("No room IDs to process.", 0)}
    /\ UNCHANGED <<artifact, futures, order, all_availability, db, conn, raised, run,
                   calls, db0, fetched>>

\* room['id'] for the next element the comprehension iterates over
NextRoomId(x, i) ==
    IF x.k = "number" THEN Result("TypeError", None)
    ELSE IF x.k = "object" THEN Result("TypeError", None)
    ELSE IF x.v[i].k # "object" THEN Result("TypeError", None)
    ELSE IF x.v[i].id.k = "absent" THEN Result("KeyError", None)
    ELSE Result("none", x.v[i].id)

\* one step of the dict comprehension: executor.submit for the next room; an
\* exception leaves through the with block, which waits for the pool
Submit ==
    /\ pc = "submit"
    /\ LET i == Len(futures) + 1
           id == NextRoomId(room_ids, i)
       IN  IF id.exc # "none"
           THEN /\ pc' = "unwind" /\ raised' = id.exc
                /\ UNCHANGED futures
           ELSE /\ futures' = Append(futures, Future(id.val.m, "pending",
                                        Outcome("none", NoDoc),
                                        FetchReturn("none", <<>>, <<>>), FALSE))
                /\ pc' = IF i = Len(room_ids.v) THEN "collect" ELSE "submit"
                /\ UNCHANGED raised
    /\ UNCHANGED <<artifact, room_ids, order, all_availability, db, conn, log, run,
                   calls, db0, fetched>>

PoolAlive == pc \in {"submit", "collect", "unwind"}
Running == {i \in 1..Len(futures) : futures[i].state = "running"}

\* variant of WorkerStart: a task that came back empty is run again
WorkerStartRetrying(i) ==
    /\ PoolAlive
    /\ \/ futures[i].state = "pending"
       \/ futures[i].state = "done" /\ futures[i].ret.val = <<>> /\ ~futures[i].consumed
    /\ Cardinality(Running) < max_workers
    /\ futures' = [futures EXCEPT ![i].state = "running"]
    /\ UNCHANGED <<pc, artifact, room_ids, order, all_availability, db, conn, log,
                   raised, run, calls, db0, fetched>>

\* a worker thread picks a pending task
WorkerStart(i) ==
    /\ PoolAlive
    /\ futures[i].state = "pending"
    /\ Cardinality(Running) < max_workers
    /\ futures' = [futures EXCEPT ![i].state = "running"]
    /\ UNCHANGED <<pc, artifact, room_ids, order, all_availability, db, conn, log,
                   raised, run, calls, db0, fetched>>

\* variant of WorkerFinish: the worker thread itself extends the batch
WorkerFinishAppending(i) ==
    /\ PoolAlive
    /\ futures[i].state = "running"
    /\ \E outcome \in RunOutcomes :
        LET ret == fetch_single_room_availability(futures[i].room_id, outcome) IN
        /\ futures' = [futures EXCEPT ![i].state = "done", ![i].outcome = outcome,
                                      ![i].ret = ret]
        /\ log' = log \cup Range(ret.log)
        /\ all_availability' = all_availability \o ret.val
    /\ order' = IF pc = "collect" THEN Append(order, i) ELSE order
    /\ UNCHANGED <<pc, artifact, room_ids, db, conn, raised, run, calls, db0, fetched>>

\* the worker runs fetch_single_room_availability to its end; a future that
\* finishes once as_completed is waiting is queued in completion order
WorkerFinish(i) ==
    /\ PoolAlive
    /\ futures[i].state = "running"
    /\ \E outcome \in RunOutcomes :
        LET ret == fetch_single_room_availability(futures[i].room_id, outcome) IN
        /\ futures' = [futures EXCEPT ![i].state = "done", ![i].outcome = outcome,
                                      ![i].ret = ret]
        /\ log' = log \cup Range(ret.log)
    /\ order' = IF pc = "collect" THEN Append(order, i) ELSE order
    /\ UNCHANGED <<pc, artifact, room_ids, all_availability, db, conn, raised, run,
                   calls, db0, fetched>>

\* the futures as_completed can yield next: those found finished when it
\* was called, in any order, then the others in completion order
Early == {i \in 1..Len(futures) : futures[i].state = "done" /\ i \notin Range(order)}
Yieldable ==
    LET early == {i \in Early : ~futures[i].consumed}
        late == {k \in 1..Len(order) : ~futures[order[k]].consumed}
    IN  IF early # {} THEN early
        ELSE IF late # {} THEN {order[CHOOSE k \in late : \A l \in late : k <= l]}
        ELSE {}

\* variant of Collected: the result replaces the batch
CollectedOverwrite(batch, ret) ==
    IF ret.exc = "none" /\ ret.val # <<>> THEN ret.val ELSE batch

\* variant of Collected: the result is inserted after the first record
CollectedInterleaved(batch, ret) ==
    IF ret.exc = "none" /\ ret.val # <<>>
    THEN (IF batch = <<>> THEN ret.val ELSE <<Head(batch)>> \o ret.val \o Tail(batch))
    ELSE batch

\* all_availability after one iteration of the loop
Collected(batch, ret) ==
    IF ret.exc = "none" /\ ret.val # <<>> THEN batch \o ret.val ELSE batch

\* one iteration of the loop over as_completed
Consume(i) ==
    /\ pc = "collect"
    /\ i \in Yieldable
    /\ futures' = [futures EXCEPT ![i].consumed = TRUE]
    /\ all_availability' = Collected(all_availability, futures[i].ret)
    /\ log' = IF futures[i].ret.exc # "none"
              THEN log \cup {Msg("Error fetching data for room", futures[i].room_id)}
              ELSE log
    /\ UNCHANGED <<pc, artifact, room_ids, order, db, conn, raised, run, calls, db0, fetched>>

\* variant of AllConsumed: the store is called inside the loop, after the
\* first result
AnyConsumed == \E i \in 1..Len(futures) : futures[i].consumed

AllConsumed == \A i \in 1..Len(futures) : futures[i].consumed
AllDone == \A i \in 1..Len(futures) : futures[i].state = "done"

\* the loop is over: the with block shuts the pool down and the batch is
\* stored; an exception out of the store ends the script
Store ==
    /\ pc = "collect"
    /\ AllConsumed
    /\ LET ret == store_availability_to_db(all_availability, db) IN
        /\ db' = ret.db
        /\ conn' = ret.conn
        /\ log' = log \cup Range(ret.log)
        /\ raised' = ret.raised
        /\ calls' = Append(calls, StoreEntry(run, db, all_availability, ret))
        /\ pc' = IF ret.raised = "none" THEN "done" ELSE "crashed"
    /\ UNCHANGED <<artifact, room_ids, futures, order, all_availability, run, db0,
                   fetched>>

\* the exception raised while submitting leaves the with block once every
\* submitted task has finished, and ends the script
Unwind ==
    /\ pc = "unwind"
    /\ AllDone
    /\ pc' = "crashed"
    /\ UNCHANGED <<artifact, room_ids, futures, order, all_availability, db, conn, log,
                   raised, run, calls, db0, fetched>>

\* the script is started again, on whatever room_ids.json then holds; the
\* database file is all that is left of the earlier run
NextRun ==
    /\ pc \in {"done", "crashed"}
    /\ run < MaxRuns
    /\ run' = run + 1
    /\ pc' = "start"
    /\ artifact' \in Artifacts
    /\ room_ids' = EmptyList /\ futures' = <<>> /\ order' = <<>>
    /\ all_availability' = <<>> /\ conn' = "none" /\ log' = {} /\ raised' = "none"
    /\ calls' = <<>>
    /\ db0' = db
    /\ UNCHANGED <<db, fetched>>

Next ==
    \/ Main
    \/ Submit
    \/ \E i \in 1..Len(futures) : WorkerStart(i)
    \/ \E i \in 1..Len(futures) : WorkerFinish(i)
    \/ \E i \in 1..Len(futures) : Consume(i)
    \/ Store
    \/ Unwind
    \/ NextRun

Spec == Init /\ [][Next]_vars

\* the step Store as the scheduler sees it: the main thread, its loop over,
\* leaves the with block and runs the store call to its end
StoreStep == pc = "collect" /\ AllConsumed /\ pc' \in {"done", "crashed"}

\* the scheduling the script runs under: the main thread keeps running its
\* code, a worker thread of the pool takes each queued task, and every
\* request ends within its timeout, so that every started task finishes;
\* nothing makes anyone start the script again
Fairness ==
    /\ WF_vars(Main) /\ WF_vars(Submit) /\ WF_pc(StoreStep) /\ WF_vars(Unwind)
    /\ \A i \in 1..MaxRooms :
        /\ WF_vars(i \in 1..Len(futures) /\ WorkerStart(i))
        /\ WF_vars(i \in 1..Len(futures) /\ WorkerFinish(i))
        /\ WF_vars(i \in 1..Len(futures) /\ Consume(i))

SpecFair == Spec /\ Fairness

(***************************************************************************)
(* Vocabulary of the properties.                                           *)
(***************************************************************************)
\* the response has the documented structure: an object whose subjects, if
\* any, are objects whose items, if any, are objects
WellFormedDoc(doc) ==
    /\ doc.k = "object"
    /\ doc.subjects.k \in {"list", "absent"}
    /\ \A i \in 1..Len(doc.subjects.v) :
        /\ doc.subjects.v[i].k = "object"
        /\ doc.subjects.v[i].items.k \in {"list", "absent"}
        /\ \A j \in 1..Len(doc.subjects.v[i].items.v) :
            doc.subjects.v[i].items.v[j].k = "object"

\* the request or the parsing fails
FailedOutcome(o) == o.k \in FailureKinds \/ (o.k = "json" /\ ~WellFormedDoc(o.doc))
\* the upstream response is a success
SuccessOutcome(o) == o.k = "json" /\ WellFormedDoc(o.doc)

RECURSIVE SumLen(_)
SumLen(subjects) ==
    IF subjects = <<>> THEN 0 ELSE Len(Head(subjects).items.v) + SumLen(Tail(subjects))
CountItems(doc) == SumLen(doc.subjects.v)

Sentinel(x) == x = StrV(NA)
NumericTime(x) == x.k \in {"int", "float"} \/ (x.k = "str" /\ IsFloatLiteral(Lex(x.s)))
NumericStatus(x) == x.k \in {"int", "float"} \/ (x.k = "str" /\ IsIntLiteral(Lex(x.s)))
AllKeys(r) ==
    /\ r.room_id.k # "absent" /\ r.date.k # "absent" /\ r.event_name.k # "absent"
    /\ r.time_start.k # "absent" /\ r.time_end.k # "absent" /\ r.status.k # "absent"
    /\ r.additional_details.k # "absent"
\* every coerced field of the record is the sentinel or numeric
Coercible(r) ==
    /\ AllKeys(r)
    /\ Sentinel(r.time_start) \/ NumericTime(r.time_start)
    /\ Sentinel(r.time_end) \/ NumericTime(r.time_end)
    /\ Sentinel(r.status) \/ NumericStatus(r.status)
\* a coerced field holds a value that is neither numeric nor the sentinel
NonNumeric(r) ==
    /\ AllKeys(r)
    /\ \/ ~(Sentinel(r.time_start) \/ NumericTime(r.time_start))
       \/ ~(Sentinel(r.time_end) \/ NumericTime(r.time_end))
       \/ ~(Sentinel(r.status) \/ NumericStatus(r.status))
HasSentinel(r) == Sentinel(r.time_start) \/ Sentinel(r.time_end) \/ Sentinel(r.status)
TextBindable(r) ==
    /\ r.room_id.k \in {"int", "str", "null"}
    /\ r.date.k \in {"int", "float", "str", "null"}
    /\ r.event_name.k \in {"int", "float", "str", "null"}
    /\ r.additional_details.k \in {"int", "float", "str", "null"}
Kept(batch) == SelectSeq(batch, Coercible)

\* the row's coerced columns are null wherever the record holds the sentinel
NullWhereSentinel(row, r) ==
    /\ Sentinel(r.time_start) => row.time_start = SqlNull
    /\ Sentinel(r.time_end) => row.time_end = SqlNull
    /\ Sentinel(r.status) => row.status = SqlNull

\* the row is the stored form of the record, whatever its coerced columns
RowFrom(row, r) ==
    /\ r.room_id.k = "int" /\ row.room_id = SqlInteger(r.room_id.m)
    /\ r.event_name.k = "str" => row.event_name = SqlText(r.event_name.s)
    /\ r.additional_details.k = "str" => row.additional_details = SqlText(r.additional_details.s)

(***************************************************************************)
(* Properties of fetch_single_room_availability (SpecFetch).               *)
(***************************************************************************)
\* C1: whatever fails during the request or the parsing, the fetcher does
\* not raise: it returns the empty list (nothing of what it had built) and
\* prints a message naming the room.
C1_NeverRaises ==
    (fetched.called /\ FailedOutcome(fetched.outcome)) =>
        /\ fetched.ret.exc = "none"
        /\ fetched.ret.val = <<>>
        /\ \E m \in Range(fetched.ret.log) : m.ref = fetched.space_id

\* C1 witness: the parsing failed after a record had been built
C1_Witness ==
    /\ fetched.called
    /\ fetched.outcome.k = "json"
    /\ fetched.outcome.doc.k = "object" /\ fetched.outcome.doc.subjects.k = "list"
    /\ Len(fetched.outcome.doc.subjects.v) >= 1
    /\ fetched.outcome.doc.subjects.v[1].k = "object"
    /\ fetched.outcome.doc.subjects.v[1].items = Coll("list", <<ItemFull, ItemString>>)
    /\ fetched.ret.val = <<>>

\* C3: on a successful response the fetcher returns as many records as the
\* subjects of the response hold items.
C3_OneRecordPerItem ==
    (fetched.called /\ SuccessOutcome(fetched.outcome)) =>
        /\ fetched.ret.exc = "none"
        /\ Len(fetched.ret.val) = CountItems(fetched.outcome.doc)

\* C3 witness: two subjects, the same item reported three times
C3_Witness ==
    /\ fetched.called /\ SuccessOutcome(fetched.outcome)
    /\ Len(fetched.outcome.doc.subjects.v) = 2
    /\ fetched.outcome.doc.subjects.v[1].items = Coll("list", <<ItemFull, ItemFull>>)
    /\ fetched.outcome.doc.subjects.v[2].items = Coll("list", <<ItemFull>>)
    /\ fetched.outcome.doc.subjects.v[2].item_date = fetched.outcome.doc.subjects.v[1].item_date
    /\ Len(fetched.ret.val) = 3

\* the items of the response in upstream order, each with its subject
RECURSIVE Flatten(_)
Flatten(subjects) ==
    IF subjects = <<>> THEN <<>>
    ELSE [j \in 1..Len(Head(subjects).items.v) |->
            [subject |-> Head(subjects), item |-> Head(subjects).items.v[j]]]
         \o Flatten(Tail(subjects))

\* y is the item's value x, or the sentinel when the item has no such key
FieldOf(x, y) == IF x.k = "absent" THEN y = StrV(NA) ELSE y = x

\* the record is the one the claim describes for the item of that subject
RecordOf(r, space_id, subject, item) ==
    /\ r.room_id = IntV(space_id)
    /\ subject.item_date.k # "absent" => r.date = subject.item_date
    /\ FieldOf(item.itemName, r.event_name)
    /\ FieldOf(item.start, r.time_start)
    /\ FieldOf(item.end, r.time_end)
    /\ FieldOf(item.type_id, r.status)
    /\ FieldOf(item.itemId2, r.additional_details)

\* C12: on a successful response the n-th record returned is that of the
\* n-th item of the response: room_id is the room asked for, date the
\* item_date of the item's subject, and event_name, time_start, time_end,
\* status, additional_details the item's itemName, start, end, type_id,
\* itemId2, the sentinel "N/A" standing in exactly for a key the item lacks.
C12_FieldMapping ==
    (fetched.called /\ SuccessOutcome(fetched.outcome)) =>
        LET flat == Flatten(fetched.outcome.doc.subjects.v) IN
        /\ Len(fetched.ret.val) = Len(flat)
        /\ \A n \in 1..Len(flat) :
            RecordOf(fetched.ret.val[n], fetched.space_id, flat[n].subject, flat[n].item)

\* C12 witness: two subjects of different dates; an item without keys, then
\* an item holding a null, a number and the literal "N/A"
C12_Witness ==
    /\ fetched.called /\ SuccessOutcome(fetched.outcome)
    /\ Len(fetched.outcome.doc.subjects.v) = 2
    /\ fetched.outcome.doc.subjects.v[1].item_date = StrV(StrDate)
    /\ fetched.outcome.doc.subjects.v[1].items = Coll("list", <<ItemBare>>)
    /\ fetched.outcome.doc.subjects.v[2].items = Coll("list", <<ItemMixed, ItemFull>>)
    /\ Len(fetched.ret.val) = 3
    /\ fetched.ret.val[1].event_name = StrV(NA) /\ fetched.ret.val[1].date = StrV(StrDate)
    /\ fetched.ret.val[2].time_end = None /\ fetched.ret.val[2].date = StrV(StrDate2)
    /\ fetched.ret.val[2].status = IntV(2) /\ fetched.ret.val[2].event_name = StrV(NA)
    /\ fetched.ret.val[3].event_name = StrV(StrCS101)

(***************************************************************************)
(* Properties of store_availability_to_db (SpecStore).                     *)
(***************************************************************************)
\* C4 as claimed: after a store call every record of the batch holding the
\* sentinel in time_start, time_end or status has its row in the table,
\* with null in that column.
C4_AsClaimed ==
    \A k \in 1..Len(calls) :
        \A i \in 1..Len(calls[k].batch) :
            HasSentinel(calls[k].batch[i]) =>
                \E j \in 1..Len(calls[k].ret.db.rows) :
                    /\ RowFrom(calls[k].ret.db.rows[j], calls[k].batch[i])
                    /\ NullWhereSentinel(calls[k].ret.db.rows[j], calls[k].batch[i])

\* C4 amended: whenever a store call on a batch leaves rows, they are the
\* rows, in order, of the records whose three coerced fields are each the
\* sentinel or numeric, and each holds null wherever its record holds the
\* sentinel: the sentinel never drops a record and never becomes a number.
C4_SentinelIsNull ==
    \A k \in 1..Len(calls) :
        LET rows == calls[k].ret.db.rows
            kept == Kept(calls[k].batch)
        IN  (calls[k].batch # <<>> /\ rows # <<>>) =>
                /\ Len(rows) = Len(kept)
                /\ \A j \in 1..Len(rows) :
                    /\ RowFrom(rows[j], kept[j])
                    /\ NullWhereSentinel(rows[j], kept[j])

\* C4 witness: a record with the sentinel in all three columns was stored
\* next to a record whose sentinel did not save it from being dropped
C4_Witness ==
    /\ Len(calls) >= 1
    /\ Len(calls[1].batch) = 2
    /\ Sentinel(calls[1].batch[1].time_start) /\ ~Coercible(calls[1].batch[1])
    /\ Sentinel(calls[1].batch[2].time_start) /\ Sentinel(calls[1].batch[2].time_end)
    /\ Sentinel(calls[1].batch[2].status)
    /\ Len(calls[1].ret.db.rows) = 1
    /\ calls[1].ret.db.rows[1].time_start = SqlNull
    /\ calls[1].ret.db.rows[1].status = SqlNull

\* C5: a store call that follows a store call on the same batch leaves as
\* many rows as the one before it.
C5_SameRowCount ==
    \A k \in 2..Len(calls) :
        /\ calls[k].batch = calls[k - 1].batch
        /\ Len(calls[k].ret.db.rows) = Len(calls[k - 1].ret.db.rows)
        /\ calls[k].ret.db.exists = calls[k - 1].ret.db.exists

\* C5 witness: two calls, rows inserted, over a table that held other rows
C5_Witness ==
    /\ Len(calls) = 2
    /\ Len(calls[1].before.rows) = 1
    /\ Len(calls[1].ret.db.rows) = 2
    /\ Len(db.rows) = 2

\* C6 as claimed: a record holding a non-numeric, non-sentinel value in a
\* coerced field is dropped alone: the call does not raise and the rows are
\* those of the records that coerce (batches whose other columns all bind).
C6_AsClaimed ==
    \A k \in 1..Len(calls) :
        ((\E i \in 1..Len(calls[k].batch) : NonNumeric(calls[k].batch[i]))
         /\ (\A i \in 1..Len(calls[k].batch) :
                AllKeys(calls[k].batch[i]) /\ TextBindable(calls[k].batch[i]))) =>
            /\ calls[k].ret.raised = "none"
            /\ Len(calls[k].ret.db.rows) = Len(Kept(calls[k].batch))

\* C8: a store call on an empty batch opens no connection and leaves the
\* database as it was, and prints its message.
C8_EmptyBatchNoTouch ==
    \A k \in 1..Len(calls) :
        calls[k].batch = <<>> =>
            /\ calls[k].ret.conn = "none"
            /\ calls[k].ret.db = calls[k].before
            /\ calls[k].ret.raised = "none"
            /\ calls[k].ret.log = <<Msg("No availability data to store.", 0)>>

\* C8 witness: the empty batch stored over a table that holds rows
C8_Witness ==
    /\ Len(calls) >= 1
    /\ calls[1].batch = <<>>
    /\ calls[1].before.exists /\ Len(calls[1].before.rows) = 2
    /\ Len(db.rows) = 2

\* C11: a store call on a non-empty batch leaves either one row, in order,
\* for every record whose coerced fields are each the sentinel or numeric,
\* and reports that count as inserted, or no row at all (the insert failed
\* or the call raised) and reports none: never some of the records.
C11_AllOrNothing ==
    \A k \in 1..Len(calls) :
        LET rows == calls[k].ret.db.rows
            kept == Kept(calls[k].batch)
            said == Msg("Inserted records", Len(kept)) \in Range(calls[k].ret.log)
        IN  calls[k].batch # <<>> =>
                /\ rows = <<>> \/ Len(rows) = Len(kept)
                /\ \A j \in 1..Len(rows) : rows[j].id = j /\ RowFrom(rows[j], kept[j])
                /\ calls[k].ret.inserted = Len(rows)
                /\ said <=> rows # <<>>
                /\ (calls[k].ret.raised # "none"
                    \/ Msg("Error inserting records", 0) \in Range(calls[k].ret.log)) =>
                        rows = <<>>

\* C11 witness: the insert failed on the second record, after the first had
\* been inserted into the open transaction, and the table is empty
C11_Witness ==
    /\ Len(calls) >= 1
    /\ Len(calls[1].batch) = 2
    /\ Coercible(calls[1].batch[1]) /\ RecordBindable(calls[1].batch[1])
    /\ Coercible(calls[1].batch[2]) /\ ~RecordBindable(calls[1].batch[2])
    /\ calls[1].before.rows # <<>>
    /\ Msg("Error inserting records", 0) \in log
    /\ conn = "closed"
    /\ db = Database(TRUE, <<>>)

\* C19 as claimed: whenever a store call has opened the connection, the
\* connection is closed when the call returns or raises.
C19_AsClaimed ==
    \A k \in 1..Len(calls) :
        calls[k].batch # <<>> => calls[k].ret.conn = "closed"

(***************************************************************************)
(* Properties of the script (Spec).                                        *)
(***************************************************************************)
Tasks == 1..Len(futures)
\* the tasks whose upstream response was a success
Successes == {i \in Tasks : futures[i].state = "done" /\ SuccessOutcome(futures[i].outcome)}
\* the tasks whose request, parsing or task wrapper failed
Failures == {i \in Tasks : futures[i].state = "done" /\ ~SuccessOutcome(futures[i].outcome)}

Orderings(S) == {p \in [1..Cardinality(S) -> S] : \A a, b \in 1..Cardinality(S) : p[a] = p[b] => a = b}

RECURSIVE Blocks(_)
Blocks(p) == IF p = <<>> THEN <<>> ELSE futures[Head(p)].ret.val \o Blocks(Tail(p))

\* C2: once every task has been consumed the batch is made of the records
\* of the successful tasks and of nothing else, a room whose tasks all
\* failed has no record in it, and the run goes on to the store with
\* that batch.
C2_FailuresContributeNothing ==
    (futures # <<>> /\ AllConsumed) =>
        /\ pc \in {"collect", "done", "crashed"}
        /\ \E p \in Orderings(Successes) : all_availability = Blocks(p)
        /\ \A i \in Failures :
            (\A j \in Successes : futures[j].room_id # futures[i].room_id) =>
                \A n \in 1..Len(all_availability) :
                    all_availability[n].room_id # IntV(futures[i].room_id)
        /\ \A i \in Successes : Len(futures[i].ret.val) = CountItems(futures[i].outcome.doc)
        /\ pc # "collect" => (Len(calls) = 1 /\ calls[1].batch = all_availability)

\* C2 witness: one room timed out, the other answered two items, and the
\* two records were stored
C2_Witness ==
    /\ pc = "done" /\ Len(futures) = 2
    /\ futures[1].outcome.k = "timeout"
    /\ futures[2].outcome = Outcome("json", DocTwo)
    /\ futures[1].room_id # futures[2].room_id
    /\ Len(all_availability) = 2
    /\ Len(db.rows) = 2

\* the ids of the RoomRefs this run loaded
LoadedIds ==
    IF room_ids.k # "list" THEN {}
    ELSE {room_ids.v[i].id.m :
            i \in {n \in 1..Len(room_ids.v) :
                     room_ids.v[n].k = "object" /\ room_ids.v[n].id.k = "int"}}
RowOfThisRun(row) ==
    /\ row.room_id \in {SqlInteger(id) : id \in LoadedIds}
    /\ \E i \in 1..Len(all_availability) : RowFrom(row, all_availability[i])
StoredBatch == calls # <<>> /\ calls[Len(calls)].batch # <<>>

\* C7 as claimed: when a run has ended, whatever rows the table holds were
\* written by that run, for rooms that run loaded.
C7_AsClaimed ==
    pc = "done" =>
        /\ db.rows # <<>> => (StoredBatch /\ db = calls[Len(calls)].ret.db)
        /\ \A j \in 1..Len(db.rows) : RowOfThisRun(db.rows[j])

\* C7 amended: a run that stores a non-empty batch replaces the table: every
\* row is the row of a record of that run's batch, for a room that run
\* loaded, and there are no more rows than records; a run that ends without
\* storing a batch leaves the table as it found it.
C7_ReplacedByStoringRun ==
    /\ StoredBatch =>
        /\ \A j \in 1..Len(db.rows) : RowOfThisRun(db.rows[j])
        /\ Len(db.rows) <= Len(all_availability)
    /\ ~StoredBatch => db = db0

\* C7 witness: the second run replaced the rows of another room
C7_Witness ==
    /\ run = 2 /\ pc = "done"
    /\ db0.rows # <<>> /\ db.rows # <<>>
    /\ StoredBatch
    /\ \A j \in 1..Len(db.rows) : db.rows[j].room_id # db0.rows[1].room_id

\* the row's text columns are null wherever the record holds the sentinel
NullWhereSentinelText(row, r) ==
    /\ Sentinel(r.event_name) => row.event_name = SqlNull
    /\ Sentinel(r.additional_details) => row.additional_details = SqlNull

\* the row's text columns hold the text N/A wherever the record holds the
\* sentinel
TextWhereSentinel(row, r) ==
    /\ Sentinel(r.event_name) => row.event_name = SqlText(NA)
    /\ Sentinel(r.additional_details) => row.additional_details = SqlText(NA)

\* C13 as claimed: in the rows a run stored, every column, event_name and
\* additional_details included, is null where the record held the sentinel.
C13_AsClaimed ==
    StoredBatch =>
        LET rows == calls[Len(calls)].ret.db.rows
            kept == Kept(calls[Len(calls)].batch)
        IN  \A j \in 1..Len(rows) :
                /\ NullWhereSentinel(rows[j], kept[j])
                /\ NullWhereSentinelText(rows[j], kept[j])

\* C13 amended: in the rows a run stored, time_start, time_end and status
\* are null where the record held the sentinel, never a number, while
\* event_name and additional_details hold the text N/A where the record
\* held the sentinel, not null.
C13_SentinelByColumn ==
    StoredBatch =>
        LET rows == calls[Len(calls)].ret.db.rows
            kept == Kept(calls[Len(calls)].batch)
        IN  /\ rows # <<>> => Len(rows) = Len(kept)
            /\ \A j \in 1..Len(rows) :
                /\ NullWhereSentinel(rows[j], kept[j])
                /\ TextWhereSentinel(rows[j], kept[j])

\* C13 witness: an item without any key was fetched and its row stored
C13_Witness ==
    /\ pc = "done" /\ StoredBatch
    /\ \E i \in Tasks : futures[i].outcome = Outcome("json", DocTwo)
    /\ \E j \in 1..Len(db.rows) :
        /\ Sentinel(all_availability[j].event_name)
        /\ Sentinel(all_availability[j].status)
        /\ db.rows[j].event_name = SqlText(NA)
        /\ db.rows[j].additional_details = SqlText(NA)
        /\ db.rows[j].time_start = SqlNull /\ db.rows[j].time_end = SqlNull
        /\ db.rows[j].status = SqlNull

\* the step opens a connection, changes the database or is a store call
TouchesStore ==
    \/ db' # db
    \/ conn' # conn /\ conn' # "none"
    \/ Len(calls') > Len(calls)

\* C14: a step that touches the store is taken by the main thread, at the
\* end of the loop, when every submitted task has finished and has been
\* consumed and no worker is running a task; it is no step of a worker, and
\* no task starts or finishes afterwards.
C14_StoreAfterAllTasks ==
    [][/\ TouchesStore =>
            /\ pc = "collect" /\ pc' \in {"done", "crashed"}
            /\ futures' = futures
            /\ Running = {}
            /\ \A i \in Tasks : futures[i].state = "done" /\ futures[i].consumed
       /\ (calls # <<>> /\ calls' = calls) => futures' = futures]_vars

\* C14 witness: two tasks finished while the main thread was waiting, the
\* second first, and the batch was then stored
C14_Witness ==
    /\ pc = "done" /\ Len(futures) = 2
    /\ order = <<2, 1>>
    /\ Len(calls) = 1 /\ conn = "closed"
    /\ db.rows # <<>>

\* what consuming the future adds to the batch
Contribution(f) == IF f.ret.exc = "none" THEN f.ret.val ELSE <<>>

\* C15: the batch grows only by a step of the main thread in its loop, and
\* that step appends the whole result of exactly one finished future that
\* had not been consumed; a step of a worker leaves the batch alone; every
\* future that gets consumed adds its result once, and stays consumed.
C15_SingleConsumer ==
    [][/\ (all_availability' # all_availability /\ all_availability' # <<>>) =>
            /\ pc = "collect" /\ pc' = "collect"
            /\ \E i \in Tasks :
                /\ futures[i].state = "done" /\ ~futures[i].consumed
                /\ futures' = [futures EXCEPT ![i].consumed = TRUE]
                /\ all_availability' = all_availability \o futures[i].ret.val
       /\ \A i \in Tasks :
            /\ (run' = run /\ ~futures[i].consumed /\ futures'[i].consumed) =>
                    all_availability' = all_availability \o Contribution(futures[i])
            /\ (run' = run /\ futures[i].consumed) => futures'[i] = futures[i]
            /\ (run' = run /\ futures'[i].state # futures[i].state) =>
                    all_availability' = all_availability]_vars

\* C15 witness: both tasks answered, the second finishing while the first
\* was still running; the loop has added the four records, those of the
\* second task first
C15_Witness ==
    /\ pc = "collect" /\ Len(futures) = 2 /\ order = <<2, 1>>
    /\ futures[1].consumed /\ futures[2].consumed
    /\ futures[1].room_id # futures[2].room_id
    /\ Len(all_availability) = 4
    /\ all_availability[1].room_id = IntV(futures[2].room_id)
    /\ all_availability[4].room_id = IntV(futures[1].room_id)

\* C16 as claimed: under fair scheduling every submitted task eventually
\* finishes and is consumed, whatever the other tasks do, and a run that
\* has entered the orchestrator eventually has called the store and ended
\* without an exception.
C16_AsClaimed ==
    /\ \A i \in 1..MaxRooms :
        (i \in Tasks) ~> (i \in Tasks /\ futures[i].state = "done" /\ futures[i].consumed)
    /\ (pc = "submit") ~> (pc = "done" /\ calls # <<>> /\ raised = "none")

EmptyArtifact == Artifact("json", EmptyList)

\* C9 as claimed: with an empty array no task runs, the store step is
\* reached and prints its message, and the table is not changed.
C9_AsClaimed ==
    (artifact = EmptyArtifact /\ pc = "done") =>
        /\ futures = <<>>
        /\ Len(calls) = 1
        /\ Msg("No availability data to store.", 0) \in log
        /\ db = db0

\* C9 amended: with an empty array the orchestrator is not called: no task
\* runs, the store step is not reached, the script prints that there are no
\* room ids and ends, and the table is not changed.
C9_EmptyDirectoryEndsEarly ==
    (artifact = EmptyArtifact /\ pc # "start") =>
        /\ pc = "done"
        /\ futures = <<>>
        /\ calls = <<>> /\ conn = "none"
        /\ log = {Msg("No room IDs to process.", 0)}
        /\ raised = "none"
        /\ db = db0

\* C9 witness: a run on an empty array ended over a table that holds rows
C9_Witness ==
    /\ artifact = EmptyArtifact /\ pc = "done"
    /\ db.rows # <<>>

\* room_ids.json is a JSON array of objects that hold an id
ExpectedStructure(a) ==
    /\ a.k = "json" /\ a.v.k = "list"
    /\ \A i \in 1..Len(a.v.v) : a.v.v[i].k = "object" /\ a.v.v[i].id.k = "int"

\* C10 as claimed: when room_ids.json is missing, is not JSON or has not the
\* expected structure, no task is submitted, the store is not called, no
\* exception ends the script, and the run ends having reported the failure.
C10_AsClaimed ==
    (~ExpectedStructure(artifact) /\ pc # "start") =>
        /\ futures = <<>>
        /\ calls = <<>>
        /\ raised = "none"
        /\ pc # "crashed"
        /\ pc = "done" => log # {}

\* every entry has been submitted
Submitted == pc \in {"collect", "done", "crashed"} /\ Truthy(room_ids)

\* C17, in every state: for a directory that is a sequence of RoomRefs, there
\* is never more than one task per entry; once the entries are submitted
\* there is exactly one task per entry, in order, for that entry's id, an id
\* listed twice having two tasks; and when the run has ended every task has
\* run the fetcher.
C17_TaskPerEntry ==
    ExpectedStructure(artifact) =>
        /\ room_ids.k = "list"
        /\ Len(futures) <= Len(room_ids.v)
        /\ \A i \in Tasks : futures[i].room_id = room_ids.v[i].id.m
        /\ Submitted => Len(futures) = Len(room_ids.v)
        /\ (Submitted /\ pc # "collect") => \A i \in Tasks : futures[i].state = "done"

\* C17, in every step of a run: a task runs the fetcher once: it goes from
\* pending to running to done, and a finished task, failed or not, keeps its
\* state and its result: it is not run again.
C17_NoRetry ==
    \A i \in Tasks :
        run' = run =>
            /\ futures'[i].room_id = futures[i].room_id
            /\ futures[i].state = "pending" => futures'[i].state \in {"pending", "running"}
            /\ futures[i].state = "running" => futures'[i].state \in {"running", "done"}
            /\ futures[i].state = "done" =>
                    /\ futures'[i].state = "done"
                    /\ futures'[i].outcome = futures[i].outcome
                    /\ futures'[i].ret = futures[i].ret

\* C17: the orchestrator invokes the fetcher exactly once for each entry of
\* the RoomRef sequence: as many tasks as entries (an id listed twice is
\* fetched twice), no entry skipped, no failed fetch retried.
C17_OncePerEntry == [](C17_TaskPerEntry) /\ [][C17_NoRetry]_vars

\* C17 witness: the same id listed twice; its first fetch timed out, its
\* second answered, and the run ended
C17_Witness ==
    /\ pc = "done" /\ ExpectedStructure(artifact)
    /\ Len(room_ids.v) = 2 /\ room_ids.v[1].id = room_ids.v[2].id
    /\ Len(futures) = 2
    /\ futures[1].outcome.k = "timeout" /\ futures[1].state = "done"
    /\ futures[2].outcome = Outcome("json", DocTwo)
    /\ Len(all_availability) = 2

\* the tasks whose result the loop has taken
Consumed == {i \in Tasks : futures[i].consumed}

\* task i finished, while the loop was waiting, before task j did
FinishedBefore(i, j) ==
    \E a, b \in 1..Len(order) : a < b /\ order[a] = i /\ order[b] = j

\* C18: at every moment the batch is the results of the consumed tasks put
\* end to end, each whole and in one piece; the blocks of tasks that
\* finished while the loop was waiting stand in the order in which they
\* finished; and the block of a task that was answered holds the records of
\* the response's items in upstream order (subjects in order, items in
\* order within each subject).
C18_WholeBlocksInOrder ==
    /\ \E p \in Orderings(Consumed) :
        /\ all_availability = Blocks(p)
        /\ \A a, b \in 1..Len(p) : a < b => ~FinishedBefore(p[b], p[a])
    /\ \A i \in Consumed :
        SuccessOutcome(futures[i].outcome) =>
            LET flat == Flatten(futures[i].outcome.doc.subjects.v) IN
            /\ Len(futures[i].ret.val) = Len(flat)
            /\ \A n \in 1..Len(flat) :
                RecordOf(futures[i].ret.val[n], futures[i].room_id,
                         flat[n].subject, flat[n].item)

\* C18 witness: two rooms answered two items each, the second room first;
\* the batch holds the second room's two records in upstream order, then
\* the first room's
C18_Witness ==
    /\ pc = "done" /\ Len(futures) = 2 /\ order = <<2, 1>>
    /\ futures[1].room_id # futures[2].room_id
    /\ futures[1].outcome = Outcome("json", DocTwo)
    /\ futures[2].outcome = Outcome("json", DocTwo)
    /\ all_availability = futures[2].ret.val \o futures[1].ret.val
    /\ Len(all_availability) = 4
    /\ Sentinel(all_availability[1].event_name)
    /\ all_availability[2].event_name = StrV(StrCS101)
    /\ all_availability[2].room_id = IntV(futures[2].room_id)
    /\ all_availability[3].room_id = IntV(futures[1].room_id)

====
